---- MODULE Spec2Model ----
(***************************************************************************)
(* A model of the Game Boy DMG emulator core of src/src/cpu.rs: the flags  *)
(* codec (FlagsRegister <-> u8), the register file (Registers), the memory *)
(* bus (MemoryBus) and the interpreter (Cpu::new, Cpu::load_rom,           *)
(* Cpu::execute).                                                          *)
(*                                                                         *)
(* A Rust panic is modelled by the variable fault: "none" while the        *)
(* program runs, the kind of panic once one was raised.  A panic unwinds   *)
(* out of the call, so what the call had written before it stays written   *)
(* and no later call happens.  A function that can panic is an operator    *)
(* that returns a record with a field fault.                               *)
(***************************************************************************)
EXTENDS Integers, Sequences, FiniteSets, TLC

VARIABLES
    registers,             \* Cpu.registers.registers : [u8; 8], indexed 0..7
    sp,                    \* Cpu.sp : u16
    pc,                    \* Cpu.pc : u16
    ram,                   \* Cpu.ram.memory : [u8; 0x10000], held as its nonzero cells
    dump_registers_after,  \* Cpu.dump_registers_after : Option<u8>
    fault,                 \* "none", or the panic that ended the program
    call,                  \* the last call made: [op, args, ret]
    steps                  \* number of calls the driver has made

vars == <<registers, sp, pc, ram, dump_registers_after, fault, call, steps>>

----------------------------------------------------------------------------
(* Machine integers *)

U8 == 256
U16 == 65536

Byte == 0 .. (U8 - 1)

RECURSIVE Pow2(_)
Pow2(n) == IF n = 0 THEN 1 ELSE 2 * Pow2(n - 1)

\* x >> n
Shr(x, n) == x \div Pow2(n)

\* x << n on a w-bit unsigned integer (w = U8 or U16): the high bits are lost
Shl(x, n, w) == (x * Pow2(n)) % w

RECURSIVE BitAnd(_, _)
BitAnd(x, y) ==
    IF x = 0 \/ y = 0 THEN 0
    ELSE (IF x % 2 = 1 /\ y % 2 = 1 THEN 1 ELSE 0) + 2 * BitAnd(x \div 2, y \div 2)

RECURSIVE BitOr(_, _)
BitOr(x, y) ==
    IF x = 0 THEN y
    ELSE IF y = 0 THEN x
    ELSE (IF x % 2 = 1 \/ y % 2 = 1 THEN 1 ELSE 0) + 2 * BitOr(x \div 2, y \div 2)

\* Option<T>: None is the empty tuple, Some(x) the tuple <<x>>
None == <<>>
Some(x) == <<x>>
unwrap_or(opt, default) == IF opt = None THEN default ELSE opt[1]

----------------------------------------------------------------------------
(* Flags codec *)

ZERO_FLAG_BYTE_POSITION == 7
SUBTRACT_FLAG_BYTE_POSITION == 6
HALF_CARRY_FLAG_BYTE_POSITION == 5
CARRY_FLAG_BYTE_POSITION == 4

FlagsRegister == [zero : BOOLEAN, subtraction : BOOLEAN, half_carry : BOOLEAN, carry : BOOLEAN]

\* A plausible slip: the carry bit placed one position too low
u8_from_FlagsRegister_low_carry(flag) ==
    BitOr(BitOr(BitOr(
        Shl(IF flag.zero THEN 1 ELSE 0, ZERO_FLAG_BYTE_POSITION, U8),
        Shl(IF flag.subtraction THEN 1 ELSE 0, SUBTRACT_FLAG_BYTE_POSITION, U8)),
        Shl(IF flag.half_carry THEN 1 ELSE 0, HALF_CARRY_FLAG_BYTE_POSITION, U8)),
        Shl(IF flag.carry THEN 1 ELSE 0, CARRY_FLAG_BYTE_POSITION - 1, U8))

\* impl From<FlagsRegister> for u8
u8_from_FlagsRegister(flag) ==
    BitOr(BitOr(BitOr(
        Shl(IF flag.zero THEN 1 ELSE 0, ZERO_FLAG_BYTE_POSITION, U8),
        Shl(IF flag.subtraction THEN 1 ELSE 0, SUBTRACT_FLAG_BYTE_POSITION, U8)),
        Shl(IF flag.half_carry THEN 1 ELSE 0, HALF_CARRY_FLAG_BYTE_POSITION, U8)),
        Shl(IF flag.carry THEN 1 ELSE 0, CARRY_FLAG_BYTE_POSITION, U8))

\* impl From<u8> for FlagsRegister
FlagsRegister_from_u8(byte) ==
    [zero        |-> BitAnd(Shr(byte, ZERO_FLAG_BYTE_POSITION), 1) # 0,
     subtraction |-> BitAnd(Shr(byte, SUBTRACT_FLAG_BYTE_POSITION), 1) # 0,
     half_carry  |-> BitAnd(Shr(byte, HALF_CARRY_FLAG_BYTE_POSITION), 1) # 0,
     carry       |-> BitAnd(Shr(byte, CARRY_FLAG_BYTE_POSITION), 1) # 0]

----------------------------------------------------------------------------
(* Memory bus *)

MEMORY_SIZE == 65536

\* A sequence of bytes given as its first bytes (head) and its length (len):
\* the bytes after the head are zero.  at(bytes, i) is bytes[i], i from 0.
ByteSlice(len, head) == [len |-> len, head |-> head]
slice_at(bytes, i) == IF i < Len(bytes.head) THEN bytes.head[i + 1] ELSE 0
slice_nonzero(bytes) == {i \in 0 .. (Len(bytes.head) - 1) : i < bytes.len /\ bytes.head[i + 1] # 0}

\* MemoryBus::new: every cell is zero, so no cell is held
MemoryBus_new == [a \in {} |-> 0]

\* memory[index], index a usize: a bounds-checked array read
memory_read(memory, index) ==
    IF index >= MEMORY_SIZE THEN [fault |-> "index_out_of_bounds", val |-> 0]
    ELSE [fault |-> "none", val |-> IF index \in DOMAIN memory THEN memory[index] ELSE 0]

\* memory[index] = value, a bounds-checked array write
memory_write(memory, index, value) ==
    IF index >= MEMORY_SIZE THEN [fault |-> "index_out_of_bounds", memory |-> memory]
    ELSE [fault |-> "none",
          memory |-> [a \in IF value = 0 THEN (DOMAIN memory) \ {index}
                                         ELSE (DOMAIN memory) \cup {index}
                      |-> IF a = index THEN value ELSE memory[a]]]

\* MemoryBus::set_range: memory[start..start+len].copy_from_slice(values)
set_range(memory, start, len, values) ==
    IF start + len > MEMORY_SIZE
    THEN [fault |-> "slice_index_out_of_range", memory |-> memory]
    ELSE IF values.len # len
    THEN [fault |-> "copy_from_slice_length_mismatch", memory |-> memory]
    ELSE [fault |-> "none",
          memory |-> [a \in {b \in DOMAIN memory : b < start \/ b >= start + len}
                             \cup {start + i : i \in slice_nonzero(values)}
                      |-> IF a >= start /\ a < start + len
                          THEN slice_at(values, a - start) ELSE memory[a]]]

----------------------------------------------------------------------------
(* Register file *)

NUM_REGISTERS == 8
FLAGS_REGISTER_INDEX == 15

\* Registers::new
Registers_new == [i \in 0 .. (NUM_REGISTERS - 1) |-> 0]

\* ToRegisterCode for &str: to_lowercase over the names in use
to_lowercase(name) ==
    CASE name = "AF" -> "af" [] name = "BC" -> "bc" [] name = "DE" -> "de"
      [] name = "HL" -> "hl" [] name = "A" -> "a" [] name = "B" -> "b"
      [] OTHER -> name

\* ToRegisterCode::codes
codes(name) ==
    LET s == to_lowercase(name) IN
    CASE s = "af" -> [fault |-> "none", val |-> <<0, 1>>]
      [] s = "bc" -> [fault |-> "none", val |-> <<2, 3>>]
      [] s = "de" -> [fault |-> "none", val |-> <<4, 5>>]
      [] s = "hl" -> [fault |-> "none", val |-> <<6, 7>>]
      [] OTHER    -> [fault |-> "unknown_register_code", val |-> <<0, 0>>]

\* ToRegisterCode::code
code(name) ==
    LET c == codes(name) IN [fault |-> c.fault, val |-> c.val[1]]

\* Registers::get_register
get_register(regs, register) ==
    IF register >= NUM_REGISTERS THEN [fault |-> "index_out_of_bounds", val |-> 0]
    ELSE [fault |-> "none", val |-> regs[register]]

\* Registers::set_register
set_register(regs, register, value) ==
    IF register >= NUM_REGISTERS THEN [fault |-> "index_out_of_bounds", registers |-> regs]
    ELSE [fault |-> "none", registers |-> [regs EXCEPT ![register] = value]]

\* Registers::get_register_word
get_register_word(regs, cs) ==
    LET lo == get_register(regs, cs[1])
        hi == get_register(regs, cs[2])
    IN  IF lo.fault # "none" THEN lo
        ELSE IF hi.fault # "none" THEN hi
        ELSE [fault |-> "none", val |-> lo.val + Shl(hi.val, 8, U16)]

\* A plausible slip: the two bytes stored in the other order
set_register_word_swapped(regs, cs, value) ==
    LET first == set_register(regs, cs[1], Shr(value, 8) % U8)
    IN  IF first.fault # "none" THEN first
        ELSE set_register(first.registers, cs[2], value % U8)

\* Registers::set_register_word: the first cell is written before the second
\* index is checked
set_register_word(regs, cs, value) ==
    LET first == set_register(regs, cs[1], value % U8)
    IN  IF first.fault # "none" THEN first
        ELSE set_register(first.registers, cs[2], Shr(value, 8) % U8)

\* Registers::get_flags
get_flags(regs) ==
    LET f == get_register(regs, FLAGS_REGISTER_INDEX)
    IN  [fault |-> f.fault, val |-> FlagsRegister_from_u8(f.val)]

\* Registers::set_flags
set_flags(regs, zero, subtraction, half_carry, carry) ==
    LET c_flag == get_flags(regs) IN
    IF c_flag.fault # "none" THEN [fault |-> c_flag.fault, registers |-> regs]
    ELSE LET flags == [zero        |-> unwrap_or(zero, c_flag.val.zero),
                       subtraction |-> unwrap_or(subtraction, c_flag.val.subtraction),
                       half_carry  |-> unwrap_or(half_carry, c_flag.val.half_carry),
                       carry       |-> unwrap_or(carry, c_flag.val.carry)]
         IN  set_register(regs, FLAGS_REGISTER_INDEX, u8_from_FlagsRegister(flags))

----------------------------------------------------------------------------
(* Cpu *)

ROM_SIZE == 16384

\* The Cpu as a value: its fields and the panic raised, if any
Cpu_new ==
    [registers |-> Registers_new, sp |-> 0, pc |-> 0, ram |-> MemoryBus_new,
     dump_registers_after |-> None, fault |-> "none"]

\* panic!: the call ends with what it had written so far
Panic(cpu, kind) == [cpu EXCEPT !.fault = kind]

\* Cpu::load_rom: rom.copy_from_slice(&rom_in) needs rom_in.len() == 0x3FFF + 1
load_rom(cpu, rom_in) ==
    IF rom_in.len # ROM_SIZE THEN Panic(cpu, "copy_from_slice_length_mismatch")
    ELSE LET r == set_range(cpu.ram, 0, ROM_SIZE, rom_in)
         IN  [cpu EXCEPT !.ram = r.memory, !.fault = r.fault]

\* Cpu::fetch_byte: the byte at pc, which is the opcode; pc is left alone
fetch_byte(cpu) == memory_read(cpu.ram, cpu.pc)

\* Cpu::fetch_word: the byte at pc and, as the high byte, the byte at pc + 1
fetch_word(cpu) ==
    LET byte == fetch_byte(cpu)
        next == memory_read(cpu.ram, cpu.pc + 1)
    IN  IF byte.fault # "none" THEN byte
        ELSE IF next.fault # "none" THEN next
        ELSE [fault |-> "none", val |-> byte.val + Shl(next.val, 8, U16)]

\* u8::overflowing_add(1)
overflowing_add_1(value) == [result |-> (value + 1) % U8, carry |-> value + 1 >= U8]

\* u8::overflowing_sub(1)
overflowing_sub_1(value) == [result |-> (value - 1) % U8, carry |-> value - 1 < 0]

\* Cpu::inc_reg_byte
inc_reg_byte(cpu, register) ==
    LET value == get_register(cpu.registers, register) IN
    IF value.fault # "none" THEN Panic(cpu, value.fault)
    ELSE LET r   == overflowing_add_1(value.val)
             set == set_register(cpu.registers, register, r.result)
             fl  == set_flags(set.registers, Some(r.result = 0), Some(FALSE), Some(r.carry), None)
         IN  [cpu EXCEPT !.registers = fl.registers, !.fault = fl.fault]

\* Cpu::dec_reg_byte
dec_reg_byte(cpu, register) ==
    LET value == get_register(cpu.registers, register) IN
    IF value.fault # "none" THEN Panic(cpu, value.fault)
    ELSE LET r   == overflowing_sub_1(value.val)
             set == set_register(cpu.registers, register, r.result)
             fl  == set_flags(set.registers, Some(r.result = 0), Some(TRUE), Some(r.carry), None)
         IN  [cpu EXCEPT !.registers = fl.registers, !.fault = fl.fault]

\* The arms of execute's match.  Each gives the Cpu it leaves and, when it did
\* not panic, the increment it evaluates to.
Arm(cpu, increment) == [cpu |-> cpu, increment |-> increment]

\* 0x00 => 1
exec_00(cpu) == Arm(cpu, 1)

\* A plausible slip: the operand fetch moves pc past the two bytes it read
exec_01_fetch_advances(cpu) ==
    LET nn == fetch_word(cpu)
        bc == codes("bc")
    IN  IF nn.fault # "none" THEN Arm(Panic(cpu, nn.fault), 0)
        ELSE LET set == set_register_word(cpu.registers, bc.val, nn.val)
             IN  Arm([cpu EXCEPT !.registers = set.registers, !.fault = set.fault,
                                 !.pc = (cpu.pc + 2) % U16], 3)

\* 0x01 => { let nn = self.fetch_word(); set_register_word("bc".codes(), nn); 3 }
exec_01(cpu) ==
    LET nn == fetch_word(cpu)
        bc == codes("bc")
    IN  IF nn.fault # "none" THEN Arm(Panic(cpu, nn.fault), 0)
        ELSE IF bc.fault # "none" THEN Arm(Panic(cpu, bc.fault), 0)
        ELSE LET set == set_register_word(cpu.registers, bc.val, nn.val)
             IN  Arm([cpu EXCEPT !.registers = set.registers, !.fault = set.fault], 3)

\* 0x02 => { let v = get_register_word("bc".codes());
\*           self.ram.memory[v] = get_register("a".code()); 1 }
\* The value assigned is evaluated before the place assigned to.
exec_02(cpu) ==
    LET bc == codes("bc")
        v  == get_register_word(cpu.registers, bc.val)
        a  == code("a")
    IN  IF bc.fault # "none" THEN Arm(Panic(cpu, bc.fault), 0)
        ELSE IF v.fault # "none" THEN Arm(Panic(cpu, v.fault), 0)
        ELSE IF a.fault # "none" THEN Arm(Panic(cpu, a.fault), 0)
        ELSE LET value == get_register(cpu.registers, a.val) IN
             IF value.fault # "none" THEN Arm(Panic(cpu, value.fault), 0)
             ELSE LET w == memory_write(cpu.ram, v.val, value.val)
                  IN  Arm([cpu EXCEPT !.ram = w.memory, !.fault = w.fault], 1)

\* A plausible slip: v + 1 in place of v.wrapping_add(1), which overflows at
\* 0xFFFF
exec_03_checked_add(cpu) ==
    LET bc == codes("bc")
        v  == get_register_word(cpu.registers, bc.val)
    IN  IF v.val + 1 >= U16 THEN Arm(Panic(cpu, "attempt_to_add_with_overflow"), 0)
        ELSE LET set == set_register_word(cpu.registers, bc.val, v.val + 1)
             IN  Arm([cpu EXCEPT !.registers = set.registers, !.fault = set.fault], 1)

\* 0x03 => { let v = get_register_word("bc".codes());
\*           set_register_word("bc".codes(), v.wrapping_add(1)); 1 }
exec_03(cpu) ==
    LET bc == codes("bc")
        v  == get_register_word(cpu.registers, bc.val)
    IN  IF bc.fault # "none" THEN Arm(Panic(cpu, bc.fault), 0)
        ELSE IF v.fault # "none" THEN Arm(Panic(cpu, v.fault), 0)
        ELSE LET set == set_register_word(cpu.registers, bc.val, (v.val + 1) % U16)
             IN  Arm([cpu EXCEPT !.registers = set.registers, !.fault = set.fault], 1)

\* 0x04 => { self.inc_reg_byte("b".code()); 1 }
exec_04(cpu) ==
    LET b == code("b")
    IN  IF b.fault # "none" THEN Arm(Panic(cpu, b.fault), 0)
        ELSE Arm(inc_reg_byte(cpu, b.val), 1)

\* 0x05 => { self.dec_reg_byte("b".code()); 1 }
exec_05(cpu) ==
    LET b == code("b")
    IN  IF b.fault # "none" THEN Arm(Panic(cpu, b.fault), 0)
        ELSE Arm(dec_reg_byte(cpu, b.val), 1)

\* 0x06 => { let v = self.fetch_byte(); set_register("b".code(), v); 2 }
exec_06(cpu) ==
    LET v == fetch_byte(cpu)
        b == code("b")
    IN  IF v.fault # "none" THEN Arm(Panic(cpu, v.fault), 0)
        ELSE IF b.fault # "none" THEN Arm(Panic(cpu, b.fault), 0)
        ELSE LET set == set_register(cpu.registers, b.val, v.val)
             IN  Arm([cpu EXCEPT !.registers = set.registers, !.fault = set.fault], 2)

\* 0x07 => todo!("RLCA")
exec_07(cpu) == Arm(Panic(cpu, "not_yet_implemented"), 0)

\* 0x08 => { let nn = self.fetch_word();
\*           self.sp = (nn & 0xFF) as u16 + (nn as u16) << 8; 3 }
\* + binds tighter than <<.  The sum of two u16 is overflow-checked; it cannot
\* overflow here, the low byte of nn being the opcode byte 0x08.
exec_08(cpu) ==
    LET nn == fetch_word(cpu) IN
    IF nn.fault # "none" THEN Arm(Panic(cpu, nn.fault), 0)
    ELSE LET sum == BitAnd(nn.val, 255) + nn.val IN
         IF sum >= U16 THEN Arm(Panic(cpu, "attempt_to_add_with_overflow"), 0)
         ELSE Arm([cpu EXCEPT !.sp = Shl(sum, 8, U16)], 3)

\* A plausible slip: the unknown opcode skipped as a one-byte instruction
exec_unknown_skipped(cpu) == Arm(cpu, 1)

\* _ => { println!("Unknown opcode: {:X}", opcode); panic!("Unknown opcode"); }
exec_unknown(cpu) == Arm(Panic(cpu, "unknown_opcode"), 0)

\* Display for Registers, used by the register dump: it calls get_flags
Registers_to_string(regs) == get_flags(regs).fault

\* A plausible slip the other way: the length moves pc, as the table says
advance_pc(cpu, increment) == [cpu EXCEPT !.pc = (cpu.pc + increment) % U16]

\* self.sp = self.sp.wrapping_add(increment)
advance(cpu, increment) == [cpu EXCEPT !.sp = (cpu.sp + increment) % U16]

\* Cpu::execute
execute(cpu) ==
    LET opcode == memory_read(cpu.ram, cpu.pc).val
        op     == BitAnd(opcode, 255)
        arm    == CASE op = 0 -> exec_00(cpu)
                    [] op = 1 -> exec_01(cpu)
                    [] op = 2 -> exec_02(cpu)
                    [] op = 3 -> exec_03(cpu)
                    [] op = 4 -> exec_04(cpu)
                    [] op = 5 -> exec_05(cpu)
                    [] op = 6 -> exec_06(cpu)
                    [] op = 7 -> exec_07(cpu)
                    [] op = 8 -> exec_08(cpu)
                    [] OTHER  -> exec_unknown(cpu)
    IN  IF arm.cpu.fault # "none" THEN arm.cpu
        ELSE LET after == advance(arm.cpu, arm.increment)
             IN  IF after.dump_registers_after # None
                    /\ after.dump_registers_after[1] = opcode
                 THEN [after EXCEPT !.fault = Registers_to_string(after.registers)]
                 ELSE after

----------------------------------------------------------------------------
(* The emulated machine: Cpu::new, then Cpu::load_rom, then Cpu::execute *)

\* Bound on the number of instructions the driving loop executes
MaxSteps == 5

\* ROM images handed to load_rom: three leading bytes, zero-filled to a length.
\* Images of the length load_rom takes, with every first byte, and one image
\* of each other length.
RomByte0 == Byte
RomByte1 == {0, 8, 52, 255}
RomByte2 == {0, 18, 255}
RomLens == {3, ROM_SIZE - 1, ROM_SIZE, ROM_SIZE + 1}
RomImages ==
    {ByteSlice(ROM_SIZE, <<b0, b1, b2>>) : b0 \in RomByte0, b1 \in RomByte1, b2 \in RomByte2}
    \cup {ByteSlice(n, <<1, 52, 18>>) : n \in RomLens}

\* The Cpu held in the variables
CpuState ==
    [registers |-> registers, sp |-> sp, pc |-> pc, ram |-> ram,
     dump_registers_after |-> dump_registers_after, fault |-> fault]

Install(cpu) ==
    /\ registers' = cpu.registers
    /\ sp' = cpu.sp
    /\ pc' = cpu.pc
    /\ ram' = cpu.ram
    /\ dump_registers_after' = cpu.dump_registers_after
    /\ fault' = cpu.fault

Call(op, args, ret) == [op |-> op, args |-> args, ret |-> ret]

\* Emulator::new: the machine at power-on
Init ==
    /\ registers = Cpu_new.registers
    /\ sp = Cpu_new.sp
    /\ pc = Cpu_new.pc
    /\ ram = Cpu_new.ram
    /\ dump_registers_after = Cpu_new.dump_registers_after
    /\ fault = Cpu_new.fault
    /\ call = Call("new", <<>>, <<>>)
    /\ steps = 0

\* Emulator::load_rom: the image is loaded into the fresh machine, before the
\* first instruction is executed
LoadRom(rom_in) ==
    /\ fault = "none"
    /\ call.op = "new"
    /\ Install(load_rom(CpuState, rom_in))
    /\ call' = Call("load_rom", <<rom_in>>, <<>>)
    /\ UNCHANGED steps

\* One call of Cpu::execute by the driving loop; call.args is the opcode decoded
Execute ==
    /\ fault = "none"
    /\ steps < MaxSteps
    /\ Install(execute(CpuState))
    /\ call' = Call("execute", <<memory_read(ram, pc).val>>, <<>>)
    /\ steps' = steps + 1

Next ==
    \/ \E rom_in \in RomImages : LoadRom(rom_in)
    \/ Execute

Spec == Init /\ [][Next]_vars

\* The same machine run long enough for its 16-bit counters to wrap, on a few
\* images: one for each table opcode and two that start with an unknown
\* opcode (with no image loaded the memory is all NOP)
MaxLongSteps == 65540
LongRomImages ==
    {ByteSlice(ROM_SIZE, <<b0, 52, 18>>) : b0 \in (1 .. 9) \cup {255}}

ExecuteLong ==
    /\ fault = "none"
    /\ steps < MaxLongSteps
    /\ Install(execute(CpuState))
    /\ call' = Call("execute", <<memory_read(ram, pc).val>>, <<>>)
    /\ steps' = steps + 1

NextLong ==
    \/ \E rom_in \in LongRomImages : LoadRom(rom_in)
    \/ ExecuteLong

SpecLong == Init /\ [][NextLong]_vars

----------------------------------------------------------------------------
(* Properties of the interpreter, checked under Spec *)

\* The opcode table of the specification: the opcodes with a handler and
\* the byte length tabulated for each opcode
TableOpcodes == 0 .. 8
ImplementedOpcodes == TableOpcodes \ {7}
TableLength(opcode) ==
    CASE opcode \in {1, 8} -> 3
      [] opcode = 6        -> 2
      [] OTHER             -> 1

\* The opcode a call of execute decodes in the current state
OpcodeAtPc == memory_read(ram, pc).val

\* The step is a call of execute that decodes opcode
Executes(opcode) == call'.op = "execute" /\ OpcodeAtPc = opcode

\* C1: for every opcode with an implemented handler, one call of execute
\* leaves pc equal to (pc_before + L) mod 65536, L the tabulated length of the
\* opcode at pc_before.
C1_PcAdvancesByLength ==
    [][\A opcode \in ImplementedOpcodes :
          Executes(opcode) => pc' = (pc + TableLength(opcode)) % U16]_vars

\* The program laid out from address a on: the number of implemented
\* instructions found back to back before the first byte that is no table
\* opcode, n of them being counted already; -1 when there is no such byte.
RECURSIVE ProgramLength(_, _)
ProgramLength(a, n) ==
    LET byte == memory_read(ram, a).val IN
    IF \A b \in DOMAIN ram : b < a THEN -1
    ELSE IF byte \notin TableOpcodes THEN n
    ELSE IF byte \notin ImplementedOpcodes THEN -1
    ELSE ProgramLength(a + TableLength(byte), n + 1)

\* The address of the n-th instruction (from 0) of the program laid out from 0
RECURSIVE InstructionAddress(_)
InstructionAddress(n) ==
    IF n = 0 THEN 0
    ELSE LET a == InstructionAddress(n - 1)
         IN  a + TableLength(memory_read(ram, a).val)

\* C2: from power-on, with k implemented instructions laid out from address 0
\* and then a byte that is no table opcode, the calls of execute run the k
\* instructions once each in address order (after n <= k calls the machine
\* stands at the n-th instruction) and call k+1 raises the unrecognized-opcode
\* fault at the address of that byte; the instruction at 0 is not run again.
C2_RunsProgramThenHalts ==
    LET k == ProgramLength(0, 0) IN
    (k >= 0 /\ call.op = "execute") =>
        /\ steps <= k + 1
        /\ steps <= k => fault = "none" /\ pc = InstructionAddress(steps)
        /\ steps = k + 1 => fault = "unknown_opcode" /\ pc = InstructionAddress(k)

\* The BC pair of a register file, as the code reads it
BC(regs) == get_register_word(regs, codes("bc").val).val

\* C3: executing 0x01 (LD BC,nn) at pc sets BC to memory[pc+1] + 256 *
\* memory[pc+2] and advances pc by 3.
C3_LdBcLoadsImmediate ==
    [][Executes(1) =>
          /\ fault' = "none"
          /\ BC(registers') = memory_read(ram, pc + 1).val + 256 * memory_read(ram, pc + 2).val
          /\ pc' = (pc + 3) % U16]_vars

\* The flags of a register file read back through get_flags, the call having
\* completed
FlagsAre(regs, zero, subtraction, half_carry, carry) ==
    LET f == get_flags(regs) IN
    /\ f.fault = "none"
    /\ f.val = [zero |-> zero, subtraction |-> subtraction,
                half_carry |-> half_carry, carry |-> carry]

\* C4: executing 0x04 (INC B) with B = v completes with B = (v + 1) mod 256,
\* zero = (result = 0), subtraction = false, half-carry = (low nibble of v is
\* 0xF), carry unchanged.
C4_IncB ==
    [][Executes(4) =>
          LET b == code("b")
              v == registers[b.val]
          IN  /\ fault' = "none"
              /\ b.fault = "none"
              /\ registers'[b.val] = (v + 1) % U8
              /\ FlagsAre(registers', (v + 1) % U8 = 0, FALSE, v % 16 = 15,
                          get_flags(registers).val.carry)]_vars

\* C5: executing 0x05 (DEC B) with B = v completes with B = (v - 1) mod 256,
\* zero = (result = 0), subtraction = true, half-carry = (low nibble of v is
\* 0x0), carry unchanged.
C5_DecB ==
    [][Executes(5) =>
          LET b == code("b")
              v == registers[b.val]
          IN  /\ fault' = "none"
              /\ b.fault = "none"
              /\ registers'[b.val] = (v - 1) % U8
              /\ FlagsAre(registers', (v - 1) % U8 = 0, TRUE, v % 16 = 0,
                          get_flags(registers).val.carry)]_vars

\* C6: executing 0x00 (NOP) changes nothing but pc, which advances by 1:
\* the registers (the flags byte among them), sp and memory stay as they were.
C6_NopOnlyAdvancesPc ==
    [][Executes(0) =>
          /\ fault' = "none"
          /\ pc' = (pc + 1) % U16
          /\ UNCHANGED <<registers, sp, ram>>]_vars

\* C7: executing a byte that is no opcode of the table raises the
\* unrecognized-opcode fault and leaves registers, sp, pc and memory as they
\* were before the call.
C7_UnknownOpcodeFaultsWithoutMutation ==
    [][(call'.op = "execute" /\ OpcodeAtPc \notin TableOpcodes) =>
          /\ fault' = "unknown_opcode"
          /\ UNCHANGED <<registers, sp, pc, ram>>]_vars

\* C7 witness: the byte 0xFF of a loaded image was executed and faulted
C7_Witness ==
    /\ call = Call("execute", <<255>>, <<>>)
    /\ fault = "unknown_opcode"
    /\ memory_read(ram, pc).val = 255
    /\ memory_read(ram, 1).val = 52

\* The faults that are the invalid-register contract violation: a register
\* name that resolves to no register, an index outside the register file
RegisterFaults == {"unknown_register_code", "index_out_of_bounds"}

\* C11: executing a table opcode with an implemented handler never produces
\* the invalid-register contract violation: every register it names,
\* A and B included, and the flags register resolve to an index in 0..7.
C11_NoInvalidRegisterAccess ==
    [][\A opcode \in ImplementedOpcodes :
          Executes(opcode) => fault' \notin RegisterFaults]_vars

\* The offsets of an image that are looked at: its leading bytes, the first
\* byte after them and its last byte
ImageOffsets(rom_in) ==
    {i \in (0 .. Len(rom_in.head)) \cup {rom_in.len - 1} : i >= 0 /\ i < rom_in.len}

\* C12: load_rom succeeds for every image no longer than the 0x4000-byte
\* region at base 0, shorter ones included, and memory[i] is then bytes[i] for
\* every offset i of the image; it faults only when the image does not fit.
C12_LoadRomAcceptsImagesThatFit ==
    [][call'.op = "load_rom" =>
          LET rom_in == call'.args[1] IN
          IF rom_in.len <= ROM_SIZE
          THEN /\ fault' = "none"
               /\ \A i \in ImageOffsets(rom_in) :
                     memory_read(ram', i).val = slice_at(rom_in, i)
          ELSE fault' # "none"]_vars

\* The 16-bit immediate that follows the opcode at pc
ImmediateWord == memory_read(ram, pc + 1).val + 256 * memory_read(ram, pc + 2).val

\* C13: executing 0x08 (LD (nn),SP), nn the immediate word, stores sp in
\* memory at nn, low byte first; sp and the registers keep their values.
C13_LdNnSpStoresSp ==
    [][Executes(8) =>
          /\ fault' = "none"
          /\ memory_read(ram', ImmediateWord).val = sp % 256
          /\ memory_read(ram', (ImmediateWord + 1) % U16).val = sp \div 256
          /\ UNCHANGED <<sp, registers>>]_vars

\* Two memories agree at every address but those of except
SameMemoryBut(before, after, except) ==
    \A a \in ((DOMAIN before) \cup (DOMAIN after)) \ except :
        memory_read(before, a).val = memory_read(after, a).val

\* C14: executing 0x02 (LD (BC),A) completes, memory[BC] is then the value of
\* register A, and every other memory byte and every register is unchanged.
C14_LdBcAStoresA ==
    [][Executes(2) =>
          LET a == code("a") IN
          /\ fault' = "none"
          /\ a.fault = "none"
          /\ memory_read(ram', BC(registers)).val = registers[a.val]
          /\ SameMemoryBut(ram, ram', {BC(registers)})
          /\ UNCHANGED registers]_vars

\* C15: executing 0x06 (LD B,n) sets B to memory[pc+1] and changes no other
\* register (so no flag).
C15_LdBLoadsImmediate ==
    [][Executes(6) =>
          LET b == code("b") IN
          /\ fault' = "none"
          /\ b.fault = "none"
          /\ registers'[b.val] = memory_read(ram, pc + 1).val
          /\ \A i \in (DOMAIN registers) \ {b.val} : registers'[i] = registers[i]]_vars

\* C17: executing a table opcode with an implemented handler leaves sp as it
\* was before the call.
C17_ExecuteLeavesSp ==
    [][\A opcode \in ImplementedOpcodes : Executes(opcode) => sp' = sp]_vars

\* C18: in every state reached from power-on by load_rom and calls of
\* execute, the flags byte held in the register file, the cell get_flags and
\* set_flags use, has its four low-order bits equal to zero.
C18_FlagsByteLowBitsZero ==
    LET flags_byte == get_register(registers, FLAGS_REGISTER_INDEX) IN
    call.op \in {"load_rom", "execute"} =>
        /\ flags_byte.fault = "none"
        /\ flags_byte.val % 16 = 0

\* The opcodes that C20 names, none of them a store, and the opcodes whose
\* handler fetches an operand
NonStoreOpcodes == {0, 1, 3, 4, 5, 6}
FetchingOpcodes == {1, 6, 8}

\* C20: executing 0x00, 0x01, 0x03, 0x04, 0x05 or 0x06, whether the call
\* completes or faults, leaves every memory byte unchanged; the operand fetch
\* of a handler changes neither memory nor pc.
C20_OnlyStoresWriteMemory ==
    [][/\ \A opcode \in NonStoreOpcodes : Executes(opcode) => ram' = ram
       /\ \A opcode \in FetchingOpcodes : Executes(opcode) => ram' = ram /\ pc' = pc]_vars

\* C20 witness: LD BC,nn of a loaded image fetched its operand and completed
C20_Witness ==
    /\ call = Call("execute", <<1>>, <<>>)
    /\ fault = "none"
    /\ memory_read(ram, 1).val = 52
    /\ registers[3] = 52
    /\ steps = 2

----------------------------------------------------------------------------
(* Properties of the long run, checked under SpecLong *)

\* The cells of the BC pair
BcCells == {codes("bc").val[1], codes("bc").val[2]}

\* C16: executing 0x03 (INC BC) completes with BC = (BC + 1) mod 65536 for
\* every BC, 0xFFFF wrapping to 0x0000, and leaves every register cell outside
\* the pair (the flags byte, A, D, E, H, L) and memory unchanged.
C16_IncBcWraps ==
    [][Executes(3) =>
          /\ fault' = "none"
          /\ BC(registers') = (BC(registers) + 1) % 65536
          /\ \A i \in (DOMAIN registers) \ BcCells : registers'[i] = registers[i]
          /\ ram' = ram]_vars

\* C16 witness: INC BC was executed with BC = 0xFFFF and left BC = 0x0000
C16_Witness ==
    /\ call = Call("execute", <<3>>, <<>>)
    /\ fault = "none"
    /\ steps = 65536
    /\ BC(registers) = 0
    /\ registers[2] = 0 /\ registers[3] = 0

\* The sp the handler of the opcode at pc leaves: sp itself, but for
\* 0x08, which assigns ((nn & 0xFF) + nn) << 8, nn the word read at pc
HandlerSp ==
    IF OpcodeAtPc = 8
    THEN LET nn == memory_read(ram, pc).val + 256 * memory_read(ram, pc + 1).val
         IN  (((nn % 256) + nn) * 256) % 65536
    ELSE sp

\* C19: the length of the instruction goes to sp, not to pc: execute never
\* assigns pc, so pc is 0 before and after every call from power-on, every
\* call decodes the opcode at address 0, and a call that completes leaves
\* sp = (the sp its handler left + the instruction's length) mod 65536.
C19_LengthGoesToSp ==
    [][call'.op = "execute" =>
          /\ pc = 0
          /\ pc' = 0
          /\ call'.args = <<memory_read(ram, 0).val>>
          /\ fault' = "none" => sp' = (HandlerSp + TableLength(OpcodeAtPc)) % 65536]_vars

\* C19 witness: LD BC,nn at address 0 was executed 21846 times, sp having
\* wrapped from 65535 to 2, and pc is still 0
C19_Witness ==
    /\ call = Call("execute", <<1>>, <<>>)
    /\ fault = "none"
    /\ steps = 21846
    /\ sp = 2
    /\ pc = 0

----------------------------------------------------------------------------
(* The flags codec on its own: the two conversions called on drawn inputs *)

\* Bound on the number of calls made on a unit (the codec, the register file)
MaxUnitCalls == 1

UnitIdle == UNCHANGED <<sp, pc, ram, dump_registers_after>>

\* u8::from(flags)
EncodeFlags(flags) ==
    /\ fault = "none"
    /\ steps < MaxUnitCalls
    /\ call' = Call("u8::from", <<flags>>, u8_from_FlagsRegister(flags))
    /\ steps' = steps + 1
    /\ UNCHANGED <<registers, fault>>
    /\ UnitIdle

\* FlagsRegister::from(byte)
DecodeByte(byte) ==
    /\ fault = "none"
    /\ steps < MaxUnitCalls
    /\ call' = Call("FlagsRegister::from", <<byte>>, FlagsRegister_from_u8(byte))
    /\ steps' = steps + 1
    /\ UNCHANGED <<registers, fault>>
    /\ UnitIdle

NextFlags ==
    \/ \E flags \in FlagsRegister : EncodeFlags(flags)
    \/ \E byte \in Byte : DecodeByte(byte)

SpecFlags == Init /\ [][NextFlags]_vars

\* C8: decode(encode(flags)) = flags for all 16 flag combinations, with zero
\* at bit 7, subtraction at bit 6, half-carry at bit 5 and carry at bit 4
\* (all true is 0xF0, all false 0x00); encode(decode(b)) = b & 0xF0 for all
\* 256 bytes b.
C8_FlagsCodecRoundTrip ==
    /\ call.op = "u8::from" =>
          LET flags == call.args[1]
              bit(f, position) == IF f THEN Pow2(position) ELSE 0
          IN  /\ FlagsRegister_from_u8(call.ret) = flags
              /\ call.ret = bit(flags.zero, 7) + bit(flags.subtraction, 6)
                            + bit(flags.half_carry, 5) + bit(flags.carry, 4)
    /\ call.op = "FlagsRegister::from" =>
          u8_from_FlagsRegister(call.ret) = call.args[1] - (call.args[1] % 16)

\* C8 witness: 0xFF, stray low bits set, was decoded to all four flags true,
\* which encode to 0xF0
C8_Witness ==
    /\ call.op = "FlagsRegister::from"
    /\ call.args = <<255>>
    /\ call.ret = [zero |-> TRUE, subtraction |-> TRUE, half_carry |-> TRUE, carry |-> TRUE]
    /\ u8_from_FlagsRegister(call.ret) = 240

----------------------------------------------------------------------------
(* The register file on its own: Registers' methods called on drawn inputs *)

\* Register files a run of set_register calls leaves behind
RegisterFileInputs == {Registers_new, [i \in 0 .. (NUM_REGISTERS - 1) |-> 160 + i]}
\* Indices, the first one past the register file included
RegisterIndexInputs == 0 .. NUM_REGISTERS
ByteInputs == {0, 15, 255}
WordInputs == {255, 256, 4660, 65535}
OptionBool == {None, Some(TRUE), Some(FALSE)}

InitRegisters ==
    /\ registers \in RegisterFileInputs
    /\ sp = Cpu_new.sp
    /\ pc = Cpu_new.pc
    /\ ram = Cpu_new.ram
    /\ dump_registers_after = Cpu_new.dump_registers_after
    /\ fault = "none"
    /\ call = Call("new", <<>>, <<>>)
    /\ steps = 0

UnitCall(op, args, r, ret) ==
    /\ fault = "none"
    /\ steps < MaxUnitCalls
    /\ registers' = r.registers
    /\ fault' = r.fault
    /\ call' = Call(op, args, ret)
    /\ steps' = steps + 1
    /\ UnitIdle

\* A read: the register file is left alone
Read(r) == [fault |-> r.fault, registers |-> registers]

SetRegister(register, value) ==
    UnitCall("set_register", <<register, value>>,
             set_register(registers, register, value), <<>>)

GetRegister(register) ==
    LET r == get_register(registers, register)
    IN  UnitCall("get_register", <<register>>, Read(r), r.val)

SetRegisterWord(cs, value) ==
    UnitCall("set_register_word", <<cs, value>>,
             set_register_word(registers, cs, value), <<>>)

GetRegisterWord(cs) ==
    LET r == get_register_word(registers, cs)
    IN  UnitCall("get_register_word", <<cs>>, Read(r), r.val)

GetFlags ==
    LET r == get_flags(registers)
    IN  UnitCall("get_flags", <<>>, Read(r), r.val)

SetFlags(zero, subtraction, half_carry, carry) ==
    UnitCall("set_flags", <<zero, subtraction, half_carry, carry>>,
             set_flags(registers, zero, subtraction, half_carry, carry), <<>>)

NextRegisters ==
    \/ \E register \in RegisterIndexInputs, value \in ByteInputs : SetRegister(register, value)
    \/ \E register \in RegisterIndexInputs : GetRegister(register)
    \/ \E lo, hi \in RegisterIndexInputs, value \in WordInputs : SetRegisterWord(<<lo, hi>>, value)
    \/ \E lo, hi \in RegisterIndexInputs : GetRegisterWord(<<lo, hi>>)
    \/ GetFlags
    \/ \E z, s, h, c \in OptionBool : SetFlags(z, s, h, c)

SpecRegisters == InitRegisters /\ [][NextRegisters]_vars

\* What C9 says of the call set_register_word((lo, hi), v) just made: it
\* completed, get_register_word((lo, hi)) now returns v, register lo holds
\* v & 0xFF and register hi holds (v >> 8) & 0xFF
WordReadsBack(lo, hi, v) ==
    /\ fault = "none"
    /\ get_register_word(registers, <<lo, hi>>) = [fault |-> "none", val |-> v]
    /\ registers[lo] = v % 256
    /\ registers[hi] = (v \div 256) % 256

InRange(register) == register \in 0 .. 7

\* C9 as stated: for all lo and hi in 0..7 and all 16-bit v, get_register_word
\* right after set_register_word((lo, hi), v) returns v, with lo holding
\* v & 0xFF and hi holding (v >> 8) & 0xFF.
C9_WordRoundTripAnyIndices ==
    call.op = "set_register_word" =>
        LET lo == call.args[1][1]
            hi == call.args[1][2]
        IN  (InRange(lo) /\ InRange(hi)) => WordReadsBack(lo, hi, call.args[2])

\* C9 amended: the same, for lo and hi in 0..7 that differ.
C9_WordRoundTripDistinctIndices ==
    call.op = "set_register_word" =>
        LET lo == call.args[1][1]
            hi == call.args[1][2]
        IN  (InRange(lo) /\ InRange(hi) /\ lo # hi) => WordReadsBack(lo, hi, call.args[2])

\* C9 witness: 0x1234 was written to the pair (hi, lo) = (5, 2) of a register
\* file that held other values, and reads back
C9_Witness ==
    /\ call = Call("set_register_word", <<(<<2, 5>>), 4660>>, <<>>)
    /\ fault = "none"
    /\ registers[2] = 52 /\ registers[5] = 18 /\ registers[3] = 163
    /\ get_register_word(registers, <<2, 5>>).val = 4660

\* C10: set_flags with any combination of overrides completes; a flag given as
\* Some(x) reads back from get_flags as x, a flag given as None reads back as it
\* was, and no register cell other than the flags byte changes.
C10_SetFlagsUpdatesGivenFlags ==
    [][call'.op = "set_flags" =>
          LET before == get_flags(registers)
              after  == get_flags(registers')
              given  == call'.args
          IN  /\ fault' = "none"
              /\ after.fault = "none"
              /\ after.val.zero = unwrap_or(given[1], before.val.zero)
              /\ after.val.subtraction = unwrap_or(given[2], before.val.subtraction)
              /\ after.val.half_carry = unwrap_or(given[3], before.val.half_carry)
              /\ after.val.carry = unwrap_or(given[4], before.val.carry)
              /\ \A i \in (DOMAIN registers) \ {FLAGS_REGISTER_INDEX} :
                    registers'[i] = registers[i]]_vars

====
